---- MODULE Spec2Model ----
(***************************************************************************)
(* Model of src/main.py: a FastAPI application that relays five kinds of   *)
(* notification to the Telegram sendMessage API, plus a health endpoint.   *)
(*                                                                         *)
(* Strings are TLC strings (Len, \o and SubSeq work on them).  TLA+ string *)
(* literals are ASCII, so every non-ASCII character of a template is       *)
(* written as its code point in braces: {U+1F4F1} is the mobile-phone      *)
(* emoji, {U+20B9} the rupee sign.  The notation contains no letter of     *)
(* "YES" or "NO" and no character of the HTML tags.                        *)
(***************************************************************************)
EXTENDS Integers, Sequences, FiniteSets, TLC

(***************************************************************************)
(* Bounds of the model.                                                    *)
(***************************************************************************)
\* number of requests the server may be handling at the same time
MaxReq == 2
\* order prices are drawn from -1..MaxPrice (and the spec's example, 499)
MaxPrice == 11

\* timeout=10.0 of the outbound POST
TIMEOUT_SECONDS == 10

(***************************************************************************)
(* State.  The application keeps no state of its own across requests: the  *)
(* configuration is read once at import, and everything else is local to   *)
(* the coroutine that handles one request.                                 *)
(*   env       the four module-level settings                              *)
(*   inflight  per request being handled: suspended at `await client.post` *)
(*             with its endpoint, its body and the POSTs it has issued     *)
(*   answered  the exchange that completed last: the request, the POSTs    *)
(*             issued while handling it, what came back for its POST, and  *)
(*             the HTTP response returned to the caller                    *)
(***************************************************************************)
VARIABLES env, inflight, answered

vars == <<env, inflight, answered>>

(***************************************************************************)
(* Strings.                                                                *)
(***************************************************************************)
\* the positions at which sub occurs in s
Occurrences(s, sub) ==
    {i \in 1..(Len(s) - Len(sub) + 1) : SubSeq(s, i, i + Len(sub) - 1) = sub}

Contains(s, sub) == Occurrences(s, sub) # {}

Count(s, sub) == Cardinality(Occurrences(s, sub))

Digits == "0123456789"

DigitChar(d) == SubSeq(Digits, d + 1, d + 1)

IsDigit(c) == Contains(Digits, c)

DigitValue(c) == CHOOSE d \in 0..9 : DigitChar(d) = c

\* Python's str() of a non-negative int: its decimal digits
RECURSIVE NatToStr(_)
NatToStr(n) == IF n < 10 THEN DigitChar(n) ELSE NatToStr(n \div 10) \o DigitChar(n % 10)

\* Python's str() of an int, as an f-string renders {data.price}
IntToStr(n) == IF n < 0 THEN "-" \o NatToStr(-n) ELSE NatToStr(n)

\* OrElse without the fallback: the field is shown as it came
OrElseNoFallback(s, fallback) == s

\* Python's truthiness of a str: `data.mobile or 'Not Provided'`
OrElse(s, fallback) == IF s = "" THEN fallback ELSE s

(***************************************************************************)
(* JSON values of a request body, as the client sent them.                 *)
(***************************************************************************)
Absent == [t |-> "absent"]
JNull == [t |-> "null"]
JStr(s) == [t |-> "str", s |-> s]
JInt(n) == [t |-> "int", n |-> n]
JBool(b) == [t |-> "bool", b |-> b]

(***************************************************************************)
(* Validation of a body against a pydantic BaseModel whose fields are      *)
(* declared `name: str`, `price: int`, `is_special: bool` with the default *)
(* (non-strict) configuration: every field is required, null is not        *)
(* allowed, and a value of another JSON type is converted when it denotes  *)
(* a value of the declared type.  A model class applied to a body is the   *)
(* validated instance, or the list of the fields that failed (FastAPI      *)
(* answers those with 422 before the handler is called).  Bodies are drawn *)
(* from the JSON values on which pydantic 1 and pydantic 2 agree (a number *)
(* given for a str field, on which they differ, is not among them).        *)
(***************************************************************************)
\* a field declared `: str`
StrOk(raw) == raw.t = "str"
StrOf(raw) == raw.s

RECURSIVE AllDigits(_)
AllDigits(s) == IF s = "" THEN TRUE ELSE IsDigit(SubSeq(s, 1, 1)) /\ AllDigits(SubSeq(s, 2, Len(s)))

RECURSIVE ParseNat(_)
ParseNat(s) ==
    IF Len(s) = 1 THEN DigitValue(s)
    ELSE 10 * ParseNat(SubSeq(s, 1, Len(s) - 1)) + DigitValue(SubSeq(s, Len(s), Len(s)))

IsIntLiteral(s) ==
    IF s # "" /\ SubSeq(s, 1, 1) = "-"
    THEN Len(s) > 1 /\ AllDigits(SubSeq(s, 2, Len(s)))
    ELSE s # "" /\ AllDigits(s)

ParseInt(s) ==
    IF SubSeq(s, 1, 1) = "-" THEN 0 - ParseNat(SubSeq(s, 2, Len(s))) ELSE ParseNat(s)

\* a field declared `: int`: a JSON integer, or a string that is an integer literal
IntOk(raw) == raw.t = "int" \/ (raw.t = "str" /\ IsIntLiteral(raw.s))
IntOf(raw) == IF raw.t = "int" THEN raw.n ELSE ParseInt(raw.s)

TrueStrings == {"1", "on", "t", "true", "y", "yes"}
FalseStrings == {"0", "off", "f", "false", "n", "no"}

\* BoolOk taking any string for a boolean (Python's bool(str))
BoolOkAnyString(raw) ==
    \/ raw.t = "bool"
    \/ raw.t = "int" /\ raw.n \in {0, 1}
    \/ raw.t = "str"

\* a field declared `: bool`: a JSON boolean, 0 or 1, or one of the accepted words
BoolOk(raw) ==
    \/ raw.t = "bool"
    \/ raw.t = "int" /\ raw.n \in {0, 1}
    \/ raw.t = "str" /\ raw.s \in TrueStrings \cup FalseStrings
BoolOf(raw) ==
    CASE raw.t = "bool" -> raw.b
      [] raw.t = "int" -> raw.n = 1
      [] OTHER -> raw.s \in TrueStrings

\* the body locations of a request-validation error, in declaration order
Errors(fields) == SelectSeq(fields, LAMBDA f : ~f.ok)

\* class NewUserNotification(BaseModel)
NewUserNotification(body) ==
    LET errs == Errors(<<[loc |-> "username", ok |-> StrOk(body.username)],
                       [loc |-> "mobile", ok |-> StrOk(body.mobile)],
                       [loc |-> "ip", ok |-> StrOk(body.ip)],
                       [loc |-> "profile_status", ok |-> StrOk(body.profile_status)]>>)
    IN  IF errs # <<>>
        THEN [ok |-> FALSE, errors |-> errs]
        ELSE [ok |-> TRUE,
              data |-> [username |-> StrOf(body.username), mobile |-> StrOf(body.mobile),
                        ip |-> StrOf(body.ip), profile_status |-> StrOf(body.profile_status)]]

\* class QRPaymentStarted(BaseModel)
QRPaymentStarted(body) ==
    LET errs == Errors(<<[loc |-> "username", ok |-> StrOk(body.username)],
                       [loc |-> "mobile", ok |-> StrOk(body.mobile)],
                       [loc |-> "package", ok |-> StrOk(body.package)],
                       [loc |-> "amount", ok |-> StrOk(body.amount)],
                       [loc |-> "ip", ok |-> StrOk(body.ip)],
                       [loc |-> "is_special", ok |-> BoolOk(body.is_special)]>>)
    IN  IF errs # <<>>
        THEN [ok |-> FALSE, errors |-> errs]
        ELSE [ok |-> TRUE,
              data |-> [username |-> StrOf(body.username), mobile |-> StrOf(body.mobile),
                        package |-> StrOf(body.package), amount |-> StrOf(body.amount),
                        ip |-> StrOf(body.ip), is_special |-> BoolOf(body.is_special)]]

\* class PaymentStarted(BaseModel)
PaymentStarted(body) ==
    LET errs == Errors(<<[loc |-> "username", ok |-> StrOk(body.username)],
                       [loc |-> "mobile", ok |-> StrOk(body.mobile)],
                       [loc |-> "package", ok |-> StrOk(body.package)],
                       [loc |-> "amount", ok |-> StrOk(body.amount)],
                       [loc |-> "ip", ok |-> StrOk(body.ip)],
                       [loc |-> "method", ok |-> StrOk(body.method)]>>)
    IN  IF errs # <<>>
        THEN [ok |-> FALSE, errors |-> errs]
        ELSE [ok |-> TRUE,
              data |-> [username |-> StrOf(body.username), mobile |-> StrOf(body.mobile),
                        package |-> StrOf(body.package), amount |-> StrOf(body.amount),
                        ip |-> StrOf(body.ip), method |-> StrOf(body.method)]]

\* class PaymentTimeEnded(BaseModel): the same fields as PaymentStarted
PaymentTimeEnded(body) ==
    LET errs == Errors(<<[loc |-> "username", ok |-> StrOk(body.username)],
                       [loc |-> "mobile", ok |-> StrOk(body.mobile)],
                       [loc |-> "package", ok |-> StrOk(body.package)],
                       [loc |-> "amount", ok |-> StrOk(body.amount)],
                       [loc |-> "ip", ok |-> StrOk(body.ip)],
                       [loc |-> "method", ok |-> StrOk(body.method)]>>)
    IN  IF errs # <<>>
        THEN [ok |-> FALSE, errors |-> errs]
        ELSE [ok |-> TRUE,
              data |-> [username |-> StrOf(body.username), mobile |-> StrOf(body.mobile),
                        package |-> StrOf(body.package), amount |-> StrOf(body.amount),
                        ip |-> StrOf(body.ip), method |-> StrOf(body.method)]]

\* class OrderNotification(BaseModel)
OrderNotification(body) ==
    LET errs == Errors(<<[loc |-> "username", ok |-> StrOk(body.username)],
                       [loc |-> "mobile", ok |-> StrOk(body.mobile)],
                       [loc |-> "package", ok |-> StrOk(body.package)],
                       [loc |-> "price", ok |-> IntOk(body.price)],
                       [loc |-> "ip", ok |-> StrOk(body.ip)]>>)
    IN  IF errs # <<>>
        THEN [ok |-> FALSE, errors |-> errs]
        ELSE [ok |-> TRUE,
              data |-> [username |-> StrOf(body.username), mobile |-> StrOf(body.mobile),
                        package |-> StrOf(body.package), price |-> IntOf(body.price),
                        ip |-> StrOf(body.ip)]]

(***************************************************************************)
(* The message texts the handlers build (the f-strings of main.py).        *)
(***************************************************************************)

\* NewUserText with the IP line left out
NewUserTextNoIp(data) ==
    "{U+1F514} New User Submitted\n"
    \o "{U+1F464} Username: " \o data.username \o "\n"
    \o "{U+1F4F1} Mobile: " \o data.mobile \o "\n"
    \o "{U+1F4CA} Status: " \o data.profile_status

\* text of notify_new_user
NewUserText(data) ==
    "{U+1F514} New User Submitted\n"
    \o "{U+1F464} Username: " \o data.username \o "\n"
    \o "{U+1F4F1} Mobile: " \o data.mobile \o "\n"
    \o "{U+1F310} IP: " \o data.ip \o "\n"
    \o "{U+1F4CA} Status: " \o data.profile_status

\* SpecialText with the two labels exchanged
SpecialTextInverted(is_special) == IF is_special THEN "NO" ELSE "YES"

\* special_text = "YES" if data.is_special else "NO"
SpecialText(is_special) == IF is_special THEN "YES" ELSE "NO"

\* text of notify_qr_payment_started
QRPaymentStartedText(data) ==
    "{U+1F4F2} <b>QR PAYMENT STARTED {U+1F389}</b>\n"
    \o "{U+1F464} Username: <code>" \o OrElse(data.username, "Unknown") \o "</code>\n"
    \o "{U+1F4F1} Mobile: <code>" \o OrElse(data.mobile, "Not Provided") \o "</code>\n"
    \o "{U+1F4E6} Package: <code>" \o data.package \o "</code>\n"
    \o "{U+1F4B0} Amount: <code>" \o data.amount \o "</code>\n"
    \o "{U+1F310} IP: <code>" \o data.ip \o "</code>\n"
    \o "{U+1F48E} Special User: <b>" \o SpecialText(data.is_special) \o "</b>"

\* text of notify_payment_started
PaymentStartedText(data) ==
    "{U+1F4B3} <b>New UPI PAYMENT STARTED {U+1F389}</b>\n\n"
    \o "{U+1F464} Username: <code>" \o data.username \o "</code>\n"
    \o "{U+1F4F1} Mobile: <code>" \o OrElse(data.mobile, "Not Provided") \o "</code>\n"
    \o "{U+1F4E6} Package: <code>" \o data.package \o "</code>\n"
    \o "{U+1F4B0} Amount: <code>{U+20B9}" \o data.amount \o "</code>\n"
    \o "{U+1F3E6} Payment Method: <b>" \o data.method \o "</b>\n"
    \o "{U+1F310} IP: <code>" \o data.ip \o "</code>"

\* text of notify_payment_time_ended
PaymentTimeEndedText(data) ==
    "{U+26A0}{U+FE0F} <b>PAYMENT TIME ENDED</b>\n\n"
    \o "{U+1F464} Username: <code>" \o data.username \o "</code>\n"
    \o "{U+1F4F1} Mobile: <code>" \o OrElse(data.mobile, "Not Provided") \o "</code>\n"
    \o "{U+1F4E6} Package: <code>" \o data.package \o "</code>\n"
    \o "{U+1F4B0} Amount: <code>{U+20B9}" \o data.amount \o "</code>\n"
    \o "{U+1F3E6} Payment Method: <b>" \o data.method \o "</b>\n"
    \o "{U+1F310} IP: <code>" \o data.ip \o "</code>"

\* text of notify_order
OrderText(data) ==
    "{U+1F6D2} <b>New Purchase Request</b>\n\n"
    \o "{U+1F464} Username: <code>" \o data.username \o "</code>\n"
    \o "{U+1F4F1} Mobile: <code>" \o OrElse(data.mobile, "Not Provided") \o "</code>\n"
    \o "{U+1F4E6} Package: " \o data.package \o "\n"
    \o "{U+1F4B0} Amount: {U+20B9}" \o IntToStr(data.price) \o "\n"
    \o "{U+1F310} IP: " \o data.ip

(***************************************************************************)
(* Configuration: os.getenv gives None (here <<>>) for a variable that is  *)
(* not set, and the string (here <<s>>) for one that is, the empty string  *)
(* included.                                                               *)
(***************************************************************************)
None == <<>>
Some(s) == <<s>>

EnvKeys == {"BOT_TOKEN_NEW_USER", "BOT_TOKEN_QR", "BOT_TOKEN_ORDER", "CHAT_ID"}

\* what os.getenv may return for a key
EnvValues(k) ==
    {None, Some(""), Some(IF k = "CHAT_ID" THEN "-1001" ELSE "111:" \o k)}

\* Python's `not x` for an Optional[str]
Not(x) == x = None \/ x[1] = ""

(***************************************************************************)
(* What the Telegram API, or the transport, answers to one POST.           *)
(***************************************************************************)
Responded(status_code, text) == [kind |-> "response", status_code |-> status_code, text |-> text]
Failed(exc, msg) == [kind |-> "exception", exc |-> exc, msg |-> msg]

SentMessage1 == "{\"ok\":true,\"result\":{\"message_id\":1}}"
SentMessage2 == "{\"ok\":true,\"result\":{\"message_id\":2}}"
ChatNotFound == "{\"ok\":false,\"error_code\":400,\"description\":\"Bad Request: chat not found\"}"
BadGateway == "<html><h1>502 Bad Gateway</h1></html>"

\* resp.json(): the decoded document, or a JSONDecodeError
JsonLoads(text) ==
    CASE text = SentMessage1 -> [ok |-> TRUE, value |-> [ok |-> TRUE, result |-> [message_id |-> 1]]]
      [] text = SentMessage2 -> [ok |-> TRUE, value |-> [ok |-> TRUE, result |-> [message_id |-> 2]]]
      [] text = ChatNotFound ->
            [ok |-> TRUE, value |-> [ok |-> FALSE, error_code |-> 400,
                                     description |-> "Bad Request: chat not found"]]
      [] OTHER -> [ok |-> FALSE, msg |-> "Expecting value: line 1 column 1 (char 0)"]

\* Response.is_success, which raise_for_status tests (the replies of the model are
\* 2xx, 4xx or 5xx, on which every release of httpx agrees)
IsSuccess(status_code) == 200 <= status_code /\ status_code <= 299

(***************************************************************************)
(* send_telegram, in the two parts its one `await` separates.              *)
(***************************************************************************)
HTTPException(status_code, detail) == [raised |-> TRUE, status_code |-> status_code, detail |-> detail]

\* SendTelegramCall testing `is None` instead of `not`: an empty setting passes
SendTelegramCallNoneOnly(bot_token, chat_id, text, parse_mode) ==
    IF bot_token = None \/ chat_id = None
    THEN HTTPException(500, "Missing Telegram credentials")
    ELSE [raised |-> FALSE,
          post |-> [url |-> "https://api.telegram.org/bot" \o bot_token[1] \o "/sendMessage",
                    json |-> [chat_id |-> chat_id[1], text |-> text, parse_mode |-> parse_mode],
                    timeout |-> TIMEOUT_SECONDS]]

\* up to `await client.post(...)`: the credentials check, then the request to post
SendTelegramCall(bot_token, chat_id, text, parse_mode) ==
    IF Not(bot_token) \/ Not(chat_id)
    THEN HTTPException(500, "Missing Telegram credentials")
    ELSE [raised |-> FALSE,
          post |-> [url |-> "https://api.telegram.org/bot" \o bot_token[1] \o "/sendMessage",
                    json |-> [chat_id |-> chat_id[1], text |-> text, parse_mode |-> parse_mode],
                    timeout |-> TIMEOUT_SECONDS]]

\* SendTelegramResult with the 502 raised inside the try block, so that
\* `except Exception` catches it and reports it again as a 500
SendTelegramResultCaughtTwice(up) ==
    IF up.kind = "exception"
    THEN HTTPException(500, "Unexpected error: " \o up.msg)
    ELSE IF ~IsSuccess(up.status_code)
    THEN HTTPException(500, "Unexpected error: 502: Telegram API error: " \o up.text)
    ELSE LET doc == JsonLoads(up.text)
         IN  IF doc.ok
             THEN [raised |-> FALSE, result |-> doc.value]
             ELSE HTTPException(500, "Unexpected error: " \o doc.msg)

\* SendTelegramResult with resp.json() after the try block: a JSONDecodeError is
\* handled by nobody and the server answers its plain 500
SendTelegramResultDecodingOutside(up) ==
    IF up.kind = "exception"
    THEN HTTPException(500, "Unexpected error: " \o up.msg)
    ELSE IF ~IsSuccess(up.status_code)
    THEN HTTPException(502, "Telegram API error: " \o up.text)
    ELSE LET doc == JsonLoads(up.text)
         IN  IF doc.ok
             THEN [raised |-> FALSE, result |-> doc.value]
             ELSE HTTPException(500, "Internal Server Error")

\* from the completion of the POST: raise_for_status, resp.json(), the except clauses
SendTelegramResult(up) ==
    IF up.kind = "exception"
    THEN HTTPException(500, "Unexpected error: " \o up.msg)
    ELSE IF ~IsSuccess(up.status_code)
    THEN HTTPException(502, "Telegram API error: " \o up.text)
    ELSE LET doc == JsonLoads(up.text)
         IN  IF doc.ok
             THEN [raised |-> FALSE, result |-> doc.value]
             ELSE HTTPException(500, "Unexpected error: " \o doc.msg)

(***************************************************************************)
(* HTTP responses to the caller.                                           *)
(***************************************************************************)
\* FastAPI's answer to a body that fails validation
RequestValidationError(errors) == [status |-> 422, body |-> [detail |-> errors]]

\* FastAPI's answer to a raised HTTPException
HTTPExceptionResponse(e) == [status |-> e.status_code, body |-> [detail |-> e.detail]]

\* SuccessResponse passing on the `result` member instead of the whole document
SuccessResponseUnwrapped(result) ==
    [status |-> 200, body |-> [success |-> TRUE, telegram_response |-> result.result]]

\* return {"success": True, "telegram_response": result}
SuccessResponse(result) == [status |-> 200, body |-> [success |-> TRUE, telegram_response |-> result]]

\* HealthResponse reporting the configuration
HealthResponseByConfiguration ==
    IF \E k \in EnvKeys : env[k] = None
    THEN [status |-> 503, body |-> [status |-> "unconfigured", service |-> "Telegram Notifier"]]
    ELSE [status |-> 200, body |-> [status |-> "ok", service |-> "Telegram Notifier"]]

\* return {"status": "ok", "service": "Telegram Notifier"}
HealthResponse == [status |-> 200, body |-> [status |-> "ok", service |-> "Telegram Notifier"]]

(***************************************************************************)
(* The requests, and the application at import.                            *)
(***************************************************************************)
Nothing == [t |-> "nothing"]

Reqs == 1..MaxReq

\* load_dotenv() and the four os.getenv calls, at import
Init ==
    /\ env \in {e \in [EnvKeys -> UNION {EnvValues(k) : k \in EnvKeys}] :
                  \A k \in EnvKeys : e[k] \in EnvValues(k)}
    /\ inflight = [r \in Reqs |-> Nothing]
    /\ answered = Nothing

\* the handler returns or raises without a POST pending: the response goes out
Answer(endpoint, body, posted, upstream, response) ==
    answered' = [endpoint |-> endpoint, body |-> body, posted |-> posted,
                 upstream |-> upstream, response |-> response]

\* `result = await send_telegram(bot_token, CHAT_ID, text, parse_mode)` up to its await
CallSendTelegram(r, endpoint, body, bot_token, text, parse_mode) ==
    LET c == SendTelegramCall(bot_token, env["CHAT_ID"], text, parse_mode)
    IN  IF c.raised
        THEN /\ Answer(endpoint, body, <<>>, Nothing, HTTPExceptionResponse(c))
             /\ UNCHANGED <<env, inflight>>
        ELSE /\ inflight' = [inflight EXCEPT ![r] =
                                [endpoint |-> endpoint, body |-> body, posted |-> <<c.post>>]]
             /\ UNCHANGED <<env, answered>>

\* FastAPI rejects the body before the handler runs
Reject(endpoint, body, errors) ==
    /\ Answer(endpoint, body, <<>>, Nothing, RequestValidationError(errors))
    /\ UNCHANGED <<env, inflight>>

\* GET /health
health_check(r) ==
    /\ inflight[r] = Nothing
    /\ Answer("/health", Nothing, <<>>, Nothing, HealthResponse)
    /\ UNCHANGED <<env, inflight>>

\* POST /api/notify/new-user
notify_new_user(r, body) ==
    /\ inflight[r] = Nothing
    /\ LET v == NewUserNotification(body)
       IN  IF ~v.ok
           THEN Reject("/api/notify/new-user", body, v.errors)
           ELSE CallSendTelegram(r, "/api/notify/new-user", body,
                                 env["BOT_TOKEN_NEW_USER"], NewUserText(v.data), "HTML")

\* POST /api/notify/qr-payment-started
notify_qr_payment_started(r, body) ==
    /\ inflight[r] = Nothing
    /\ LET v == QRPaymentStarted(body)
       IN  IF ~v.ok
           THEN Reject("/api/notify/qr-payment-started", body, v.errors)
           ELSE CallSendTelegram(r, "/api/notify/qr-payment-started", body,
                                 env["BOT_TOKEN_QR"], QRPaymentStartedText(v.data), "HTML")

\* POST /api/notify/payment-started
notify_payment_started(r, body) ==
    /\ inflight[r] = Nothing
    /\ LET v == PaymentStarted(body)
       IN  IF ~v.ok
           THEN Reject("/api/notify/payment-started", body, v.errors)
           ELSE CallSendTelegram(r, "/api/notify/payment-started", body,
                                 env["BOT_TOKEN_QR"], PaymentStartedText(v.data), "HTML")

\* POST /api/notify/payment-time-ended
notify_payment_time_ended(r, body) ==
    /\ inflight[r] = Nothing
    /\ LET v == PaymentTimeEnded(body)
       IN  IF ~v.ok
           THEN Reject("/api/notify/payment-time-ended", body, v.errors)
           ELSE CallSendTelegram(r, "/api/notify/payment-time-ended", body,
                                 env["BOT_TOKEN_QR"], PaymentTimeEndedText(v.data), "HTML")

\* POST /api/notify/order
notify_order(r, body) ==
    /\ inflight[r] = Nothing
    /\ LET v == OrderNotification(body)
       IN  IF ~v.ok
           THEN Reject("/api/notify/order", body, v.errors)
           ELSE CallSendTelegram(r, "/api/notify/order", body,
                                 env["BOT_TOKEN_ORDER"], OrderText(v.data), "HTML")

\* what the handler does with what send_telegram returned or raised
HandlerReturn(outcome) ==
    IF outcome.raised THEN HTTPExceptionResponse(outcome) ELSE SuccessResponse(outcome.result)

\* Resume posting once more after a failure
ResumeRetrying(r, up) ==
    /\ inflight[r] # Nothing
    /\ IF SendTelegramResult(up).raised /\ Len(inflight[r].posted) = 1
       THEN /\ inflight' = [inflight EXCEPT ![r].posted = Append(@, @[1])]
            /\ UNCHANGED <<env, answered>>
       ELSE /\ Answer(inflight[r].endpoint, inflight[r].body, inflight[r].posted, up,
                      HandlerReturn(SendTelegramResult(up)))
            /\ inflight' = [inflight EXCEPT ![r] = Nothing]
            /\ UNCHANGED env

\* the POST of request r completes with `up`: send_telegram resumes, then the handler
Resume(r, up) ==
    /\ inflight[r] # Nothing
    /\ Answer(inflight[r].endpoint, inflight[r].body, inflight[r].posted, up,
              HandlerReturn(SendTelegramResult(up)))
    /\ inflight' = [inflight EXCEPT ![r] = Nothing]
    /\ UNCHANGED env

(***************************************************************************)
(* Inputs.                                                                 *)
(***************************************************************************)
\* what one POST to the Telegram API can come back with
Upstreams ==
    {Responded(200, SentMessage1), Responded(200, SentMessage2), Responded(200, BadGateway),
     Responded(204, ""), Responded(400, ChatNotFound), Responded(502, BadGateway),
     Failed("ReadTimeout", ""), Failed("ConnectError", "All connection attempts failed")}

\* bodies of the lifecycle specification: well-formed, a field missing, a field null,
\* a field of another type that cannot be converted, and one that can
NewUserBodies ==
    {[username |-> JStr("alice"), mobile |-> m, ip |-> JStr("1.2.3.4"),
      profile_status |-> JStr("new")] : m \in {JStr("98"), Absent}}

QRBodies ==
    {[username |-> JStr("alice"), mobile |-> JStr(""), package |-> JStr("Gold"),
      amount |-> JStr("49"), ip |-> JStr("1.2.3.4"), is_special |-> b] :
        b \in {JBool(TRUE), JStr("yes"), JStr("maybe")}}

PaymentBodies ==
    {[username |-> JStr("alice"), mobile |-> JStr("98"), package |-> JStr("Gold"),
      amount |-> JStr("49"), ip |-> JStr("1.2.3.4"), method |-> m] :
        m \in {JStr("GPay"), JNull}}

OrderBodies ==
    {[username |-> JStr("alice"), mobile |-> JStr(""), package |-> JStr("Gold"),
      price |-> p, ip |-> JStr("1.2.3.4")] :
        p \in {JInt(499), JStr("499"), JStr("abc")}}

Next ==
    \E r \in Reqs :
        \/ health_check(r)
        \/ \E body \in NewUserBodies : notify_new_user(r, body)
        \/ \E body \in QRBodies : notify_qr_payment_started(r, body)
        \/ \E body \in PaymentBodies : notify_payment_started(r, body)
        \/ \E body \in PaymentBodies : notify_payment_time_ended(r, body)
        \/ \E body \in OrderBodies : notify_order(r, body)
        \/ \E up \in Upstreams : Resume(r, up)

Spec == Init /\ [][Next]_vars

(***************************************************************************)
(* The formatting specification: one request at a time, every setting      *)
(* present, and bodies that range over the values the texts depend on      *)
(* (empty strings, values that contain "YES" or "NO", negative and         *)
(* many-digit prices, booleans given as words or numbers).                 *)
(***************************************************************************)
InitFmt ==
    /\ env = [k \in EnvKeys |-> Some(IF k = "CHAT_ID" THEN "-1001" ELSE "111:" \o k)]
    /\ inflight = [r \in Reqs |-> Nothing]
    /\ answered = Nothing

FmtNewUserBodies ==
    {[username |-> u, mobile |-> m, ip |-> JStr("1.2.3.4"), profile_status |-> JStr("new")] :
        u \in {JStr(""), JStr("alice")}, m \in {JStr(""), JStr("98"), Absent}}

FmtQRBodies ==
    {[username |-> u, mobile |-> m, package |-> p, amount |-> JStr("49"),
      ip |-> JStr("1.2.3.4"), is_special |-> b] :
        u \in {JStr(""), JStr("alice"), JStr("YES"), JStr("NOYES")},
        m \in {JStr(""), JStr("98"), Absent},
        p \in {JStr("Gold"), JStr("NO ADS")},
        b \in {JBool(TRUE), JBool(FALSE), JStr("yes"), JInt(0)}}

FmtPaymentBodies ==
    {[username |-> u, mobile |-> m, package |-> JStr("Gold"), amount |-> a,
      ip |-> JStr("1.2.3.4"), method |-> JStr("GPay")] :
        u \in {JStr(""), JStr("alice")}, m \in {JStr(""), JStr("98"), Absent},
        a \in {JStr("49"), JStr("")}}

FmtOrderBodies ==
    {[username |-> JStr("alice"), mobile |-> m, package |-> JStr("Gold"), price |-> p,
      ip |-> JStr("1.2.3.4")] :
        m \in {JStr(""), JStr("98"), Absent},
        p \in {JInt(n) : n \in (-1)..MaxPrice}
              \cup {JInt(499), JStr("499"), JStr("-7"), JStr("abc"), JStr(""), JNull}}

\* a reply and a failure are enough here: the texts do not depend on the outcome
FmtUpstreams == {Responded(200, SentMessage1), Failed("ReadTimeout", "")}

NextFmt ==
    \/ health_check(1)
    \/ \E body \in FmtNewUserBodies : notify_new_user(1, body)
    \/ \E body \in FmtQRBodies : notify_qr_payment_started(1, body)
    \/ \E body \in FmtPaymentBodies : notify_payment_started(1, body)
    \/ \E body \in FmtPaymentBodies : notify_payment_time_ended(1, body)
    \/ \E body \in FmtOrderBodies : notify_order(1, body)
    \/ \E up \in FmtUpstreams : Resume(1, up)

SpecFmt == InitFmt /\ [][NextFmt]_vars

(***************************************************************************)
(* Vocabulary of the properties.                                           *)
(***************************************************************************)
NotifyEndpoints ==
    {"/api/notify/new-user", "/api/notify/qr-payment-started", "/api/notify/payment-started",
     "/api/notify/payment-time-ended", "/api/notify/order"}

\* the endpoints whose text has a fallback for an empty mobile
FallbackEndpoints == NotifyEndpoints \ {"/api/notify/new-user"}

\* the setting each endpoint's docstring says it uses
TokenOf(endpoint) ==
    CASE endpoint = "/api/notify/new-user" -> "BOT_TOKEN_NEW_USER"
      [] endpoint = "/api/notify/order" -> "BOT_TOKEN_ORDER"
      [] OTHER -> "BOT_TOKEN_QR"

\* the request model of each endpoint, applied to a body
ModelOf(endpoint, body) ==
    CASE endpoint = "/api/notify/new-user" -> NewUserNotification(body)
      [] endpoint = "/api/notify/qr-payment-started" -> QRPaymentStarted(body)
      [] endpoint = "/api/notify/payment-started" -> PaymentStarted(body)
      [] endpoint = "/api/notify/payment-time-ended" -> PaymentTimeEnded(body)
      [] endpoint = "/api/notify/order" -> OrderNotification(body)

\* the declared type of a field
DeclaredType(field) ==
    CASE field = "price" -> "int" [] field = "is_special" -> "bool" [] OTHER -> "str"

\* every field is present and of exactly the JSON type its declaration names
MatchesSchema(body) == \A f \in DOMAIN body : body[f].t = DeclaredType(f)

\* a field is missing or null, or its value denotes no value of the declared type
Unconvertible(f, raw) ==
    \/ raw.t \in {"absent", "null"}
    \/ DeclaredType(f) = "int" /\ raw.t = "str" /\ ~IsIntLiteral(raw.s)
    \/ DeclaredType(f) = "bool" /\ raw.t = "int" /\ raw.n \notin {0, 1}
    \/ DeclaredType(f) = "bool" /\ raw.t = "str" /\ raw.s \notin TrueStrings \cup FalseStrings

\* the requests being handled and the one answered last
Awaiting == {inflight[r] : r \in Reqs} \ {Nothing}
Exchanges == Awaiting \cup ({answered} \ {Nothing})
NotifyExchanges == {x \in Exchanges : x.endpoint \in NotifyEndpoints}

\* the exchanges for which a message went out, and its text
Sent == {x \in NotifyExchanges : x.posted # <<>>}
TextOf(x) == x.posted[1].json.text
DataOf(x) == ModelOf(x.endpoint, x.body).data

Answered(endpoint) == answered # Nothing /\ answered.endpoint = endpoint
AnsweredNotify == answered # Nothing /\ answered.endpoint \in NotifyEndpoints

CredentialsMissing(endpoint) == Not(env[TokenOf(endpoint)]) \/ Not(env["CHAT_ID"])

(***************************************************************************)
(* Properties.                                                             *)
(***************************************************************************)

\* C1: a well-formed request to a notify endpoint whose bot token or chat id is unset
\* or empty is answered 500 "Missing Telegram credentials", and no POST to Telegram is
\* issued for it at any point: none is recorded in its exchange, none is ever pending.
C1_MissingCredentials ==
    /\ \A x \in Awaiting : ~CredentialsMissing(x.endpoint)
    /\ (AnsweredNotify /\ ModelOf(answered.endpoint, answered.body).ok
            /\ CredentialsMissing(answered.endpoint))
        => /\ answered.response = [status |-> 500,
                                   body |-> [detail |-> "Missing Telegram credentials"]]
           /\ answered.posted = <<>>
           /\ answered.upstream = Nothing

\* an order answered while BOT_TOKEN_ORDER is the empty string and all else is set
C1_Witness ==
    /\ Answered("/api/notify/order")
    /\ ModelOf(answered.endpoint, answered.body).ok
    /\ env["BOT_TOKEN_ORDER"] = Some("")
    /\ \A k \in EnvKeys \ {"BOT_TOKEN_ORDER"} : ~Not(env[k])
    /\ answered.response.status = 500

\* C2 as stated: a body with a field missing or of another JSON type than declared is
\* answered 422 and no POST is ever issued for it.
C2_AsStated ==
    /\ \A x \in Awaiting : MatchesSchema(x.body)
    /\ (AnsweredNotify /\ ~MatchesSchema(answered.body))
        => answered.response.status = 422 /\ answered.posted = <<>>

\* C2 amended: a body with a field missing or null, or with a value that denotes no
\* value of the declared type, is answered 422 whatever the configuration, and no POST
\* is ever issued for it: validation comes before send_telegram.
C2_Rejected ==
    /\ \A x \in Awaiting : \A f \in DOMAIN x.body : ~Unconvertible(f, x.body[f])
    /\ (AnsweredNotify /\ \E f \in DOMAIN answered.body : Unconvertible(f, answered.body[f]))
        => /\ answered.response.status = 422
           /\ answered.response.body.detail # <<>>
           /\ answered.posted = <<>>
           /\ answered.upstream = Nothing

\* an order whose price is "abc" is answered while every credential is missing
C2_Witness ==
    /\ Answered("/api/notify/order")
    /\ answered.body.price = JStr("abc")
    /\ \A k \in EnvKeys : env[k] = None
    /\ answered.response.status = 422

\* C3: a valid request with credentials present issues exactly one POST, to the
\* sendMessage URL of its bot, whatever the outcome; once the outcome is known
\* (a reply, a timeout, a transport failure) the exchange still holds that one POST.
C3_ExactlyOnePost ==
    /\ \A x \in Awaiting : Len(x.posted) = 1
    /\ (AnsweredNotify /\ ModelOf(answered.endpoint, answered.body).ok
            /\ ~CredentialsMissing(answered.endpoint))
        => /\ Len(answered.posted) = 1
           /\ answered.posted[1].url =
                "https://api.telegram.org/bot" \o env[TokenOf(answered.endpoint)][1]
                    \o "/sendMessage"
           /\ answered.upstream \in Upstreams

\* a request answered after its POST timed out
C3_Witness ==
    /\ AnsweredNotify
    /\ answered.upstream = Failed("ReadTimeout", "")
    /\ Len(answered.posted) = 1

\* C4: a reply with a status outside 200..299 is answered 502 (not 500), and the
\* detail is "Telegram API error: " followed by the reply's body text, verbatim.
C4_UpstreamError ==
    (AnsweredNotify /\ answered.upstream # Nothing /\ answered.upstream.kind = "response"
        /\ answered.upstream.status_code \notin 200..299)
    => /\ answered.response.status = 502
       /\ answered.response.body = [detail |-> "Telegram API error: " \o answered.upstream.text]
       /\ Contains(answered.response.body.detail, answered.upstream.text)

\* a request answered after Telegram replied 400 with its JSON error document
C4_Witness ==
    /\ AnsweredNotify
    /\ answered.upstream = Responded(400, ChatNotFound)
    /\ answered.response.status = 502

\* the description Python gives of what went wrong with a POST other than by its status
Description(up) ==
    IF up.kind = "exception" THEN up.msg ELSE "Expecting value: line 1 column 1 (char 0)"

\* C5: a transport failure, a timeout, or a 2xx reply whose body is no JSON is answered
\* 500 with detail "Unexpected error: " and the description of the error, and never
\* with a success body.
C5_UnexpectedError ==
    (AnsweredNotify /\ answered.upstream # Nothing
        /\ \/ answered.upstream.kind = "exception"
           \/ /\ answered.upstream.kind = "response"
              /\ answered.upstream.status_code \in 200..299
              /\ answered.upstream.text \notin {SentMessage1, SentMessage2, ChatNotFound})
    => /\ answered.response.status = 500
       /\ answered.response.body =
            [detail |-> "Unexpected error: " \o Description(answered.upstream)]

\* a request answered after Telegram replied 200 with an HTML page
C5_Witness ==
    /\ AnsweredNotify
    /\ answered.upstream = Responded(200, BadGateway)
    /\ answered.response.status = 500

\* C6: after a 2xx reply that is JSON the response is 200 {success: true,
\* telegram_response: that reply's document}; and a body with `success` is only ever
\* returned for an exchange whose one POST got a 2xx reply.
C6_Success ==
    /\ (AnsweredNotify /\ answered.upstream # Nothing /\ answered.upstream.kind = "response"
            /\ answered.upstream.status_code \in 200..299
            /\ answered.upstream.text \in {SentMessage1, SentMessage2})
        => answered.response =
             [status |-> 200,
              body |-> [success |-> TRUE,
                        telegram_response |->
                            [ok |-> TRUE,
                             result |-> [message_id |->
                                 IF answered.upstream.text = SentMessage1 THEN 1 ELSE 2]]]]
    /\ (AnsweredNotify /\ "success" \in DOMAIN answered.response.body)
        => /\ answered.response.status = 200
           /\ answered.response.body.success = TRUE
           /\ Len(answered.posted) = 1
           /\ answered.upstream # Nothing
           /\ answered.upstream.kind = "response"
           /\ answered.upstream.status_code \in 200..299

\* an order answered with Telegram's second message while another request is pending
C6_Witness ==
    /\ Answered("/api/notify/order")
    /\ answered.response.status = 200
    /\ answered.response.body.telegram_response.result.message_id = 2
    /\ Awaiting # {}

\* the answer to a health check, and what was issued for it
HealthAnswer ==
    Answered("/health")
    => /\ answered.response =
            [status |-> 200, body |-> [status |-> "ok", service |-> "Telegram Notifier"]]
       /\ answered.posted = <<>>
       /\ answered.upstream = Nothing

\* C10: GET /health is answered 200 {"status": "ok", "service": "Telegram Notifier"}
\* in every configuration, no POST is issued for it, and the step that answers it
\* changes nothing else: not the configuration, not the requests being handled.
C10_Health ==
    /\ []HealthAnswer
    /\ [][(answered' # answered /\ answered'.endpoint = "/health")
            => (inflight' = inflight /\ env' = env)]_vars

\* the health check answered while no setting is set at all
C10_Witness ==
    /\ Answered("/health")
    /\ \A k \in EnvKeys : env[k] = None
    /\ answered.response.status = 200

(***************************************************************************)
(* Properties of the texts, checked under SpecFmt.                         *)
(***************************************************************************)
\* what a field with a fallback shows
Shown(value, fallback) == IF value = "" THEN fallback ELSE value

\* every field other than `field` is acceptable
OthersAcceptable(body, field) ==
    \A f \in DOMAIN body \ {field} : ~Unconvertible(f, body[f])

\* every field other than `field` is present and of its declared JSON type
OthersMatchSchema(body, field) ==
    \A f \in DOMAIN body \ {field} : body[f].t = DeclaredType(f)

\* C7 as stated: a payload of the four endpoints whose mobile is empty or omitted (and
\* whose other fields are fine) ends with a text sent that shows "Not Provided".
C7_AsStated ==
    (answered # Nothing /\ answered.endpoint \in FallbackEndpoints
        /\ answered.body.mobile \in {Absent, JStr("")}
        /\ OthersMatchSchema(answered.body, "mobile"))
    => /\ Len(answered.posted) = 1
       /\ Contains(answered.posted[1].json.text, "Mobile: <code>Not Provided</code>")

\* C7 amended: when mobile is the empty string the text sent shows
\* "Mobile: <code>Not Provided</code>" (and "Username: <code>Unknown</code>" for an
\* empty username in the QR case), never an empty field; a payload that omits mobile
\* is answered 422 and no text is sent for it.
C7_Fallback ==
    /\ \A x \in Sent :
        /\ (x.endpoint \in FallbackEndpoints /\ x.body.mobile = JStr(""))
            => /\ Contains(TextOf(x), "{U+1F4F1} Mobile: <code>Not Provided</code>\n")
               /\ ~Contains(TextOf(x), "Mobile: <code></code>")
        /\ (x.endpoint = "/api/notify/qr-payment-started" /\ x.body.username = JStr(""))
            => Contains(TextOf(x), "{U+1F464} Username: <code>Unknown</code>\n")
    /\ (answered # Nothing /\ answered.endpoint \in FallbackEndpoints
            /\ OthersAcceptable(answered.body, "mobile"))
        => /\ answered.body.mobile = Absent
                => answered.response.status = 422 /\ answered.posted = <<>>
           /\ (answered.body.mobile = JStr("") /\ ~CredentialsMissing(answered.endpoint))
                => answered.posted # <<>>

\* an order with an empty mobile was sent and answered
C7_Witness ==
    /\ Answered("/api/notify/order")
    /\ answered.body.mobile = JStr("")
    /\ answered.posted # <<>>
    /\ Contains(answered.posted[1].json.text, "Not Provided")
    /\ answered.response.status = 200

\* the value of a boolean written out, as Python and as JSON write it
BoolWritten(b) == IF b THEN {"True", "true"} ELSE {"False", "false"}

\* C8 as stated: the text sent contains the value of every field of the payload as a
\* verbatim substring, is_special and the integer price included.
C8_AsStated ==
    \A x \in Sent :
        MatchesSchema(x.body) =>
        \A f \in DOMAIN DataOf(x) :
            CASE f = "price" -> Contains(TextOf(x), IntToStr(DataOf(x)[f]))
              [] f = "is_special" -> \E w \in BoolWritten(DataOf(x)[f]) : Contains(TextOf(x), w)
              [] OTHER -> Contains(TextOf(x), DataOf(x)[f])

\* where the text of an endpoint shows each field of its payload
Places(endpoint, d) ==
    CASE endpoint = "/api/notify/new-user" ->
            {"Username: " \o d.username \o "\n", "Mobile: " \o d.mobile \o "\n",
             "IP: " \o d.ip \o "\n", "Status: " \o d.profile_status}
      [] endpoint = "/api/notify/qr-payment-started" ->
            {"Username: <code>" \o Shown(d.username, "Unknown") \o "</code>",
             "Mobile: <code>" \o Shown(d.mobile, "Not Provided") \o "</code>",
             "Package: <code>" \o d.package \o "</code>",
             "Amount: <code>" \o d.amount \o "</code>",
             "IP: <code>" \o d.ip \o "</code>",
             "Special User: <b>" \o (IF d.is_special THEN "YES" ELSE "NO") \o "</b>"}
      [] endpoint \in {"/api/notify/payment-started", "/api/notify/payment-time-ended"} ->
            {"Username: <code>" \o d.username \o "</code>",
             "Mobile: <code>" \o Shown(d.mobile, "Not Provided") \o "</code>",
             "Package: <code>" \o d.package \o "</code>",
             "Amount: <code>{U+20B9}" \o d.amount \o "</code>",
             "Payment Method: <b>" \o d.method \o "</b>",
             "IP: <code>" \o d.ip \o "</code>"}
      [] endpoint = "/api/notify/order" ->
            {"Username: <code>" \o d.username \o "</code>",
             "Mobile: <code>" \o Shown(d.mobile, "Not Provided") \o "</code>",
             "Package: " \o d.package \o "\n",
             "Amount: {U+20B9}" \o IntToStr(d.price) \o "\n",
             "IP: " \o d.ip}

\* C8 amended: the text sent shows every field of the payload after its label, none
\* dropped: a string field verbatim (the fallback for an empty mobile, or username in
\* the QR case), the price in decimal, and is_special as the label YES or NO, not as
\* its value.
C8_Rendered ==
    \A x \in Sent :
        /\ Cardinality(Places(x.endpoint, DataOf(x))) = Cardinality(DOMAIN x.body)
        /\ \A place \in Places(x.endpoint, DataOf(x)) : Contains(TextOf(x), place)

\* a QR text was sent for a special user with every string field non-empty
C8_Witness ==
    \E x \in Sent :
        /\ x.endpoint = "/api/notify/qr-payment-started"
        /\ DataOf(x).is_special
        /\ \A f \in DOMAIN x.body \ {"is_special"} : DataOf(x)[f] # ""

\* the label the QR text shows for is_special
Label(is_special) == IF is_special THEN "YES" ELSE "NO"

\* C9 as stated: the QR text contains "YES" exactly once when is_special is true and
\* "NO" exactly once when it is false, whatever the other fields hold.
C9_AsStated ==
    \A x \in Sent :
        (x.endpoint = "/api/notify/qr-payment-started" /\ MatchesSchema(x.body))
        => Count(TextOf(x), Label(DataOf(x).is_special)) = 1

\* the occurrences of a word in the five string fields of a QR payload
InFields(d, word) ==
    Count(d.username, word) + Count(d.mobile, word) + Count(d.package, word)
        + Count(d.amount, word) + Count(d.ip, word)

\* the last n characters of s
Suffix(s, n) == SubSeq(s, Len(s) - n + 1, Len(s))

\* C9 amended: the QR text ends with "Special User: <b>YES</b>" when is_special is true
\* and with "Special User: <b>NO</b>" when it is false, and outside the values of the
\* other fields it contains that label once and the other label not at all: "YES" (or
\* "NO") occurs exactly once provided no other field's value contains it.
C9_Label ==
    \A x \in Sent :
        x.endpoint = "/api/notify/qr-payment-started"
        => LET d == DataOf(x)
           IN  /\ Suffix(TextOf(x), Len("Special User: <b></b>") + Len(Label(d.is_special)))
                    = "Special User: <b>" \o Label(d.is_special) \o "</b>"
               /\ Count(TextOf(x), "YES")
                    = InFields(d, "YES") + (IF d.is_special THEN 1 ELSE 0)
               /\ Count(TextOf(x), "NO")
                    = InFields(d, "NO") + (IF d.is_special THEN 0 ELSE 1)

\* a QR text with exactly one "YES" was sent for a payload whose is_special is true
C9_Witness ==
    \E x \in Sent :
        /\ x.endpoint = "/api/notify/qr-payment-started"
        /\ x.body.is_special = JBool(TRUE)
        /\ InFields(DataOf(x), "YES") = 0
        /\ Count(TextOf(x), "YES") = 1

====
